---- MODULE Spec2Model ----
(***************************************************************************)
(* State-machine model of nhl_goal_tracking_data (src/main.rs and          *)
(* src/api_calls.rs): the date-range walk of main, the schedule lookup     *)
(* get_game_ids_period, the period type WeekOrShorterPeriod and the        *)
(* per-game run run_game with save_goal_data.                              *)
(*                                                                         *)
(* A chrono::NaiveDate is modelled by its day number (days from 0001-01-01 *)
(* = 1, proleptic Gregorian), a date text "YYYY-MM-DD" by the tuple of its *)
(* numeric fields <<y, m, d>>; any other tuple is a text that is not of    *)
(* that shape.  Option values are <<>> (None) and <<x>> (Some(x)).         *)
(***************************************************************************)
EXTENDS Integers, Sequences, FiniteSets, TLC

None == <<>>
Some(x) == <<x>>

Min(a, b) == IF a <= b THEN a ELSE b

----------------------------------------------------------------------------
(* Calendar: chrono::NaiveDate                                             *)

IsLeapYear(y) == (y % 4 = 0 /\ y % 100 # 0) \/ (y % 400 = 0)

DaysInMonth(y, m) ==
    IF m \in {4, 6, 9, 11} THEN 30
    ELSE IF m = 2 THEN (IF IsLeapYear(y) THEN 29 ELSE 28)
    ELSE 31

RECURSIVE DaysBeforeMonth(_, _)
DaysBeforeMonth(y, m) ==
    IF m <= 1 THEN 0 ELSE DaysBeforeMonth(y, m - 1) + DaysInMonth(y, m - 1)

DaysBeforeYear(y) ==
    365 * (y - 1) + ((y - 1) \div 4) - ((y - 1) \div 100) + ((y - 1) \div 400)

\* NaiveDate::from_ymd_opt: the day number of a valid calendar date, or None
\* (years of the common era up to NaiveDate::MAX's year only)
from_ymd_opt(y, m, d) ==
    IF y >= 1 /\ y <= 262142 /\ m \in 1..12 /\ d >= 1 /\ d <= DaysInMonth(y, m)
    THEN Some(DaysBeforeYear(y) + DaysBeforeMonth(y, m) + d)
    ELSE None

\* the calendar fields <<y, m, d>> of a day number
ymd_of(n) ==
    LET n0   == n - 1
        c400 == n0 \div 146097
        r400 == n0 % 146097
        c100 == Min(r400 \div 36524, 3)
        r100 == r400 - c100 * 36524
        c4   == r100 \div 1461
        r4   == r100 % 1461
        c1   == Min(r4 \div 365, 3)
        doy  == r4 - c1 * 365
        y    == 400 * c400 + 100 * c100 + 4 * c4 + c1 + 1
        m    == CHOOSE k \in 1..12 :
                    DaysBeforeMonth(y, k) <= doy
                    /\ doy < DaysBeforeMonth(y, k) + DaysInMonth(y, k)
    IN <<y, m, doy - DaysBeforeMonth(y, m) + 1>>

\* NaiveDate::MAX, the last representable date (December 31, 262142)
NaiveDateMAX == DaysBeforeYear(262143)

\* NaiveDate::checked_add_days: None when the sum is not representable
checked_add_days(date, days) ==
    IF date + days <= NaiveDateMAX THEN Some(date + days) ELSE None

\* NaiveDate::parse_from_str(text, "%Y-%m-%d"): Ok(date) or a parse error
parse_from_str(text) ==
    IF Len(text) = 3 THEN from_ymd_opt(text[1], text[2], text[3]) ELSE None

\* date.format("%Y-%m-%d").to_string()
format_ymd(date) == ymd_of(date)

----------------------------------------------------------------------------
(* week_or_shorter_period::WeekOrShorterPeriod                             *)

VALID_NUM_DAYS_DIFF == 6

\* try_new without the test that the end date is not before the start date
try_new_unordered(s, e) ==
    LET diff == e - s
    IN IF diff <= VALID_NUM_DAYS_DIFF
       THEN [ok |-> TRUE, start_date |-> s, end_date |-> e, days |-> 0]
       ELSE [ok |-> FALSE, start_date |-> s, end_date |-> e, days |-> diff + 1]

\* try_new whose error message states the difference of the two dates
try_new_days_diff(s, e) ==
    LET diff == e - s
    IN IF (diff <= VALID_NUM_DAYS_DIFF) /\ (diff >= 0)
       THEN [ok |-> TRUE, start_date |-> s, end_date |-> e, days |-> 0]
       ELSE [ok |-> FALSE, start_date |-> s, end_date |-> e, days |-> diff]

\* try_new: Ok(period) as [ok |-> TRUE, ...], Err(msg) as [ok |-> FALSE, ...]
\* where days is the number the error message states
try_new(s, e) ==
    LET diff == e - s
    IN IF (diff <= VALID_NUM_DAYS_DIFF) /\ (diff >= 0)
       THEN [ok |-> TRUE, start_date |-> s, end_date |-> e, days |-> 0]
       ELSE [ok |-> FALSE, start_date |-> s, end_date |-> e, days |-> diff + 1]

\* get_start_date giving the text of the end date
get_start_date_of_end(p) == format_ymd(p.end_date)

get_start_date(p) == format_ymd(p.start_date)

\* within with the start date excluded
within_strict_start(p, date) == (date > p.start_date) /\ (date <= p.end_date)

\* within with the end date excluded
within_strict_end(p, date) == (date >= p.start_date) /\ (date < p.end_date)

\* within: both ends included
within(p, date) == (date >= p.start_date) /\ (date <= p.end_date)

----------------------------------------------------------------------------
(* Bounds of the model                                                     *)

\* the end date of the command line lies at most MaxSpan days after BaseDay
MaxSpan == 15
\* day buckets in one schedule response: of a lookup taken alone, and of the
\* lookups of the date-range walk
MaxGameDays == 2
MaxWalkGameDays == 1
\* games in one day bucket
MaxGamesPerDay == 1
\* how many days short of the start date, and how many days past a full week,
\* the end dates tried with try_new go
MaxDaysOff == 2

SeqsUpTo(S, n) == UNION {[1..k -> S] : k \in 0..n}

----------------------------------------------------------------------------
(* Upstream schedule endpoint and get_game_ids_period                      *)

\* a date text with the right shape that names no calendar day
InvalidDateText == <<2025, 2, 30>>

\* the Game records the schedule endpoint lists:
\* startTimeUTC is <<y, m, d, H, M, S>>, venueUTCOffset a sequence of characters
ScheduleGames ==
    { [id |-> 2024020001, season |-> 20242025,
       startTimeUTC |-> <<2025, 3, 1, 0, 30, 0>>,
       venueUTCOffset |-> <<"-", "0", "5", ":", "0", "0">>],
      [id |-> 2024020002, season |-> 20242025,
       startTimeUTC |-> <<2025, 3, 1, 23, 0, 0>>,
       venueUTCOffset |-> <<"+", "0", "1", ":", "0", "0">>] }

\* the date texts a day bucket answering a query for week may carry: the days
\* around both ends of the period, and a text that is no date
DayTexts(week) ==
    { format_ymd(week.start_date - 1), format_ymd(week.start_date),
      format_ymd(week.end_date), format_ymd(week.end_date + 1),
      InvalidDateText }

GameDaySchedules(week) ==
    [date : DayTexts(week), games : SeqsUpTo(ScheduleGames, MaxGamesPerDay)]

\* what the schedule request can come back with: a transport failure of
\* send(), a failure of text(), a body that is no ScheduleResponse, or a
\* ScheduleResponse
ScheduleReplies(week, max_days) ==
    { [kind |-> k, gameWeek |-> <<>>] : k \in {"send_error", "text_error", "malformed"} }
    \cup { [kind |-> "json", gameWeek |-> gw] :
             gw \in SeqsUpTo(GameDaySchedules(week), max_days) }

\* what the schedule request of the date-range walk can come back with: the
\* same, with day buckets of one game at most
WalkScheduleReplies(week) ==
    { [kind |-> k, gameWeek |-> <<>>] : k \in {"send_error", "text_error", "malformed"} }
    \cup { [kind |-> "json", gameWeek |-> gw] :
             gw \in SeqsUpTo([date : DayTexts(week),
                              games : {<<>>} \cup { <<g>> : g \in ScheduleGames }],
                             MaxWalkGameDays) }

\* the loop over sched_resp.gameWeek: a date text that does not parse makes
\* expect() panic, a day within the period contributes its games in order
RECURSIVE game_day_loop(_, _, _, _)
game_day_loop(gameWeek, i, week, games) ==
    IF i > Len(gameWeek) THEN [tag |-> "Ok", games |-> games]
    ELSE LET game_date == parse_from_str(gameWeek[i].date)
         IN IF game_date = None THEN [tag |-> "panic", games |-> <<>>]
            ELSE game_day_loop(gameWeek, i + 1, week,
                     IF within(week, game_date[1])
                     THEN games \o gameWeek[i].games
                     ELSE games)

get_game_ids_period(reply, week) ==
    IF reply.kind # "json" THEN [tag |-> "Err", games |-> <<>>]
    ELSE game_day_loop(reply.gameWeek, 1, week, <<>>)

----------------------------------------------------------------------------
(* main: the command line and the date-range walk                          *)

NUM_DAYS_ADD_FOR_WK == 6
NUM_DAYS_IN_WK == 7

VARIABLES
    pc,          \* position of main: "start", "loop", "lookup", "games", "done"
    args,        \* env::args().skip(1), a sequence of texts
    start_date,  \* main's start_date (a day number; 0 before it is read)
    end_date,    \* main's end_date
    period,      \* the WeekOrShorterPeriod of the current iteration, or None
    games,       \* the games of the current period
    game_idx,    \* position of the for loop over games
    result,      \* "running", or how the process ended: "Ok", "Err", "panic"
    stdout,      \* the kind of the last line main printed
    iterations,  \* completed iterations of the while loop
    run_log      \* ids of the games run_game was called for since the last
                 \* schedule lookup, in call order

walk_vars == <<pc, args, start_date, end_date, period, games, game_idx,
               result, stdout, iterations, run_log>>

\* one call of get_game_ids_period taken alone
VARIABLES
    sched_week,   \* the period of the call
    sched_reply,  \* what the schedule endpoint answers
    sched_out     \* None before the call, Some(result) after it

sched_vars == <<sched_week, sched_reply, sched_out>>

\* one call of run_game
VARIABLES
    g_pc,           \* position of run_game: "enter", "boxscore", "pbp", "goals", "returned"
    game,           \* the Game it is called for
    game_path,      \* the folder of the game, a sequence of path components
    boxscore_info,  \* the BoxscoreInfo, or None
    game_pbp,       \* the PbpResponse get_pbp_data returned, or None
    goals,          \* the GoalDetails of the game
    goal_idx,       \* position of the for loop over goals
    dirs,           \* the directories that exist
    files,          \* the files that exist, path -> content
    g_result,       \* "running", "Ok", "Err: <cause>" or "panic"
    requests,       \* the requests sent upstream, in order
    saved,          \* for each goal tried, whether save_goal_data returned Ok
    env_log,        \* what the disk and the upstream answered in the first run
    env_pos,        \* how many of these answers the current run has used
    once            \* the files, directories and result after the first run

game_vars == <<g_pc, game, game_path, boxscore_info, game_pbp, goals, goal_idx,
               dirs, files, g_result, requests, saved, env_log, env_pos, once>>

\* one WeekOrShorterPeriod: try_new on two dates, then its methods
VARIABLES
    wosp_start,   \* the start date handed to try_new, as <<y, m, d>>
    wosp_end,     \* the end date handed to try_new, as <<y, m, d>>
    wosp,         \* None before try_new, Some(result) after it
    wosp_text,    \* None, or Some(what get_start_date returned)
    wosp_within   \* None, or Some([date, within]) for one call of within

period_vars == <<wosp_start, wosp_end, wosp, wosp_text, wosp_within>>

\* the goals of one game extracted from the responses of both endpoints
VARIABLES
    landing_resp,  \* the LandingResponse, or None
    pbp_resp,      \* the PbpResponse, or None
    landing_out,   \* None, or Some(result of extract_export_game_data)
    pbp_out        \* None, or Some(result of parse_goal_data)

extract_vars == <<landing_resp, pbp_resp, landing_out, pbp_out>>

\* one call of adjust_to_local_time
VARIABLES
    adj_time,    \* the start time, as the fields <<y, m, d, H, M, S>> of its text
    adj_offset,  \* the venue offset, a sequence of characters
    adj_out      \* None before the call, Some(result) after it

adjust_vars == <<adj_time, adj_offset, adj_out>>

\* one call of save_goal_data
VARIABLES
    save_in,   \* None, or Some of the goal, the files that exist, what the
               \* request comes back with and how the disk answers
    save_out   \* None before the call, Some(result) after it

save_vars == <<save_in, save_out>>

call_vars == <<period_vars, extract_vars, adjust_vars, save_vars>>

vars == <<walk_vars, sched_vars, game_vars, call_vars>>

\* the first start date of the command lines of the model
BaseDay == from_ymd_opt(2025, 2, 20)[1]

\* command lines: date ranges starting at BaseDay or the day after and ending
\* between the day before BaseDay and MaxSpan days after it (reversed ranges
\* included), ranges close to NaiveDate::MAX, and ill-formed command lines
ArgLists ==
    { <<format_ymd(BaseDay + i), format_ymd(BaseDay + j)>> :
          i \in 0..1, j \in (-1)..MaxSpan }
    \cup { <<format_ymd(NaiveDateMAX - i), format_ymd(NaiveDateMAX - j)>> :
          i \in {3, 6, 7, 8}, j \in {0, 2} }
    \cup { <<>>, <<format_ymd(BaseDay)>>,
           <<format_ymd(BaseDay), format_ymd(BaseDay), format_ymd(BaseDay)>>,
           <<InvalidDateText, format_ymd(BaseDay)>>,
           <<format_ymd(BaseDay), <<2025>> >>,
           <<format_ymd(BaseDay), format_ymd(BaseDay + 1), InvalidDateText>> }

\* parse_date_args: the loop over the arguments, then the length check
RECURSIVE parse_date_args_loop(_, _, _)
parse_date_args_loop(a, i, dates) ==
    IF i > Len(a)
    THEN IF Len(dates) < 2 THEN [ok |-> FALSE, err |-> "too few", dates |-> <<>>]
         ELSE [ok |-> TRUE, err |-> "", dates |-> <<dates[1], dates[2]>>]
    ELSE IF Len(dates) > 1 THEN [ok |-> FALSE, err |-> "too many", dates |-> <<>>]
    ELSE LET date == parse_from_str(a[i])
         IN IF date = None THEN [ok |-> FALSE, err |-> "parse", dates |-> <<>>]
            ELSE parse_date_args_loop(a, i + 1, Append(dates, date[1]))

parse_date_args(a) == parse_date_args_loop(a, 1, <<>>)

\* the walk has not started and will not
WalkIdle ==
    /\ pc = "idle"
    /\ args = <<>>
    /\ start_date = 0
    /\ end_date = 0
    /\ period = None
    /\ games = <<>>
    /\ game_idx = 1
    /\ result = "running"
    /\ stdout = ""
    /\ iterations = 0
    /\ run_log = <<>>

\* no call of get_game_ids_period is taken alone
ScheduleIdle ==
    /\ sched_week = None
    /\ sched_reply = None
    /\ sched_out = None

\* run_game is not called
GameIdle ==
    /\ g_pc = "idle"
    /\ game = None
    /\ game_path = <<>>
    /\ boxscore_info = None
    /\ game_pbp = None
    /\ goals = <<>>
    /\ goal_idx = 1
    /\ dirs = {}
    /\ files = <<>>
    /\ g_result = "running"
    /\ requests = <<>>
    /\ saved = <<>>
    /\ env_log = <<>>
    /\ env_pos = 0
    /\ once = None

\* no WeekOrShorterPeriod is tried alone
PeriodIdle ==
    /\ wosp_start = <<>>
    /\ wosp_end = <<>>
    /\ wosp = None
    /\ wosp_text = None
    /\ wosp_within = None

\* adjust_to_local_time is not called alone
AdjustIdle ==
    /\ adj_time = <<>>
    /\ adj_offset = <<>>
    /\ adj_out = None

\* save_goal_data is not called alone
SaveIdle ==
    /\ save_in = None
    /\ save_out = None

\* no extraction is called alone
ExtractIdle ==
    /\ landing_resp = None
    /\ pbp_resp = None
    /\ landing_out = None
    /\ pbp_out = None

Init ==
    /\ ScheduleIdle
    /\ GameIdle
    /\ PeriodIdle
    /\ AdjustIdle
    /\ SaveIdle
    /\ ExtractIdle
    /\ pc = "start"
    /\ args \in ArgLists
    /\ start_date = 0
    /\ end_date = 0
    /\ period = None
    /\ games = <<>>
    /\ game_idx = 1
    /\ result = "running"
    /\ stdout = ""
    /\ iterations = 0
    /\ run_log = <<>>

\* main, lines 65-71
ParseDateArgs ==
    /\ pc = "start"
    /\ LET r == parse_date_args(args)
       IN IF r.ok
          THEN /\ start_date' = r.dates[1]
               /\ end_date' = r.dates[2]
               /\ pc' = "loop"
               /\ UNCHANGED result
          ELSE /\ pc' = "done"
               /\ result' = "Err"
               /\ UNCHANGED <<start_date, end_date>>
    /\ UNCHANGED <<args, period, games, game_idx, stdout, iterations, run_log>>
    /\ UNCHANGED <<sched_vars, game_vars, call_vars>>

\* the end of the query window without the comparison with end_date
period_end_date_unclamped(last_day_wk, end) == last_day_wk

\* the end of the query window, lines 81-89
period_end_date(last_day_wk, end) ==
    IF last_day_wk < end THEN last_day_wk ELSE end

\* the process panics: expect() on None, or a panic inside a callee
Panic ==
    /\ pc' = "done"
    /\ result' = "panic"

\* start_date = start_date.checked_add_days(NUM_DAYS_IN_WK).expect(..) and the
\* next test of the while condition
AdvanceStart(stride) ==
    LET next == checked_add_days(start_date, stride)
    IN IF next = None
       THEN Panic /\ UNCHANGED <<start_date, iterations>>
       ELSE /\ start_date' = next[1]
            /\ iterations' = iterations + 1
            /\ pc' = "loop"
            /\ UNCHANGED result

\* the stride of the three places that advance start_date: lines 100-102,
\* 113-115 and 229-231
stride_invalid_period == NUM_DAYS_IN_WK

\* the stride of a failed lookup taken to be the length of the query window
stride_lookup_failed_week_end == NUM_DAYS_ADD_FOR_WK

stride_lookup_failed == NUM_DAYS_IN_WK

\* the stride at the end of an iteration taken to be the length of the window
stride_end_of_period_week_end == NUM_DAYS_ADD_FOR_WK

stride_end_of_period == NUM_DAYS_IN_WK

\* main, lines 73-105: the while condition, the query window and try_new
WhileLoop ==
    /\ pc = "loop"
    /\ IF start_date <= end_date
       THEN LET last_day_wk == checked_add_days(start_date, NUM_DAYS_ADD_FOR_WK)
            IN IF last_day_wk = None
               THEN Panic /\ UNCHANGED <<start_date, period, stdout, iterations>>
               ELSE LET period_opt ==
                            try_new(start_date,
                                    period_end_date(last_day_wk[1], end_date))
                    IN IF period_opt.ok
                       THEN /\ period' = Some([start_date |-> period_opt.start_date,
                                               end_date |-> period_opt.end_date])
                            /\ stdout' = "window"
                            /\ pc' = "lookup"
                            /\ UNCHANGED <<start_date, result, iterations>>
                       ELSE /\ stdout' = "Invalid period"
                            /\ AdvanceStart(stride_invalid_period)
                            /\ UNCHANGED period
       ELSE /\ pc' = "done"
            /\ result' = "Ok"
            /\ UNCHANGED <<start_date, period, stdout, iterations>>
    /\ UNCHANGED <<args, end_date, games, game_idx, run_log>>
    /\ UNCHANGED <<sched_vars, game_vars, call_vars>>

\* main, lines 107-118: the schedule lookup of the period
GetGameIds ==
    /\ pc = "lookup"
    /\ \E reply \in WalkScheduleReplies(period[1]) :
         LET game_rslt == get_game_ids_period(reply, period[1])
         IN CASE game_rslt.tag = "Ok" ->
                   /\ games' = game_rslt.games
                   /\ game_idx' = 1
                   /\ run_log' = <<>>
                   /\ pc' = "games"
                   /\ UNCHANGED <<start_date, result, stdout, iterations>>
              [] game_rslt.tag = "Err" ->
                   /\ stdout' = "Error retrieving game ids"
                   /\ AdvanceStart(stride_lookup_failed)
                   /\ UNCHANGED <<games, game_idx, run_log>>
              [] game_rslt.tag = "panic" ->
                   /\ Panic
                   /\ UNCHANGED <<start_date, games, game_idx, stdout, iterations,
                                  run_log>>
    /\ UNCHANGED <<args, end_date, period>>
    /\ UNCHANGED <<sched_vars, game_vars, call_vars>>

\* main, lines 121-227: one pass of the for loop over the games; its body is
\* empty (every statement of it is commented out)
ForGame ==
    /\ pc = "games"
    /\ game_idx <= Len(games)
    /\ game_idx' = game_idx + 1
    /\ UNCHANGED <<pc, args, start_date, end_date, period, games, result,
                   stdout, iterations, run_log>>
    /\ UNCHANGED <<sched_vars, game_vars, call_vars>>

\* main, lines 229-232: the end of an iteration
EndOfPeriod ==
    /\ pc = "games"
    /\ game_idx > Len(games)
    /\ AdvanceStart(stride_end_of_period)
    /\ UNCHANGED <<args, end_date, period, games, game_idx, stdout, run_log>>
    /\ UNCHANGED <<sched_vars, game_vars, call_vars>>

Next == ParseDateArgs \/ WhileLoop \/ GetGameIds \/ ForGame \/ EndOfPeriod

Spec == Init /\ [][Next]_vars

----------------------------------------------------------------------------
(* get_game_ids_period taken alone: one call on a period and a reply       *)

\* the periods try_new constructs from a start date and the dates around it
SchedulePeriods ==
    LET s == BaseDay + 6
        made == { try_new(s, s + k) : k \in (-1)..(VALID_NUM_DAYS_DIFF + 1) }
    IN { [start_date |-> r.start_date, end_date |-> r.end_date] :
             r \in { x \in made : x.ok } }

InitSchedule ==
    /\ WalkIdle
    /\ GameIdle
    /\ PeriodIdle
    /\ AdjustIdle
    /\ SaveIdle
    /\ ExtractIdle
    /\ sched_week \in { Some(w) : w \in SchedulePeriods }
    /\ sched_reply \in { Some(r) : r \in ScheduleReplies(sched_week[1], MaxGameDays) }
    /\ sched_out = None

\* main, line 108: the call
CallGetGameIdsPeriod ==
    /\ sched_out = None
    /\ sched_out' = Some(get_game_ids_period(sched_reply[1], sched_week[1]))
    /\ UNCHANGED <<sched_week, sched_reply>>
    /\ UNCHANGED <<walk_vars, game_vars, call_vars>>

NextSchedule == CallGetGameIdsPeriod

SpecSchedule == InitSchedule /\ [][NextSchedule]_vars

----------------------------------------------------------------------------
(* WeekOrShorterPeriod taken alone: try_new on two dates, get_start_date   *)
(* and within on the period it made                                        *)

\* the start dates tried: every day of December, January and February of
\* 2024 (a leap year) and of 2025
PeriodStartDates ==
    { ymd \in {2024, 2025} \X {1, 2, 12} \X (1..31) :
          from_ymd_opt(ymd[1], ymd[2], ymd[3]) # None }

\* NaiveDate::from_ymd_opt(y, m, d).unwrap() on a date of the model
DateOf(ymd) == from_ymd_opt(ymd[1], ymd[2], ymd[3])[1]

InitPeriod ==
    /\ WalkIdle
    /\ ScheduleIdle
    /\ GameIdle
    /\ ExtractIdle
    /\ AdjustIdle
    /\ SaveIdle
    /\ wosp_start \in PeriodStartDates
    /\ wosp_end \in { ymd_of(DateOf(wosp_start) + k) :
                         k \in (0 - MaxDaysOff)..(VALID_NUM_DAYS_DIFF + MaxDaysOff) }
    /\ wosp = None
    /\ wosp_text = None
    /\ wosp_within = None

\* WeekOrShorterPeriod::try_new(start_date, end_date)
CallTryNew ==
    /\ wosp_start # <<>>
    /\ wosp = None
    /\ wosp' = Some(try_new(DateOf(wosp_start), DateOf(wosp_end)))
    /\ UNCHANGED <<wosp_start, wosp_end, wosp_text, wosp_within>>
    /\ UNCHANGED <<walk_vars, sched_vars, game_vars, extract_vars, adjust_vars,
                   save_vars>>

\* the period of an Ok result
PeriodOf(r) == [start_date |-> r.start_date, end_date |-> r.end_date]

\* wosp.get_start_date() on the period try_new returned
CallGetStartDate ==
    /\ wosp # None
    /\ wosp[1].ok
    /\ wosp_text = None
    /\ wosp_text' = Some(get_start_date(PeriodOf(wosp[1])))
    /\ UNCHANGED <<wosp_start, wosp_end, wosp, wosp_within>>
    /\ UNCHANGED <<walk_vars, sched_vars, game_vars, extract_vars, adjust_vars,
                   save_vars>>

\* wosp.within(&date) on the period try_new returned, for a date from the day
\* before its start to the day after its end
CallWithin ==
    /\ wosp # None
    /\ wosp[1].ok
    /\ wosp_within = None
    /\ \E date \in (wosp[1].start_date - 1)..(wosp[1].end_date + 1) :
         wosp_within' = Some([date |-> date,
                              within |-> within(PeriodOf(wosp[1]), date)])
    /\ UNCHANGED <<wosp_start, wosp_end, wosp, wosp_text>>
    /\ UNCHANGED <<walk_vars, sched_vars, game_vars, extract_vars, adjust_vars,
                   save_vars>>

NextPeriod == CallTryNew \/ CallGetStartDate \/ CallWithin

SpecPeriod == InitPeriod /\ [][NextPeriod]_vars

----------------------------------------------------------------------------
(* run_game: start time, local date, and the goal data of api_calls.rs     *)

\* plays in one play-by-play response
MaxPlays == 2

\* i64::from_str on a sequence of characters: an optional sign, then digits
DigitValue(c) ==
    CASE c = "0" -> 0 [] c = "1" -> 1 [] c = "2" -> 2 [] c = "3" -> 3
      [] c = "4" -> 4 [] c = "5" -> 5 [] c = "6" -> 6 [] c = "7" -> 7
      [] c = "8" -> 8 [] c = "9" -> 9 [] OTHER -> -1

RECURSIVE digits_value(_, _)
digits_value(cs, acc) ==
    IF cs = <<>> THEN Some(acc)
    ELSE IF DigitValue(Head(cs)) < 0 THEN None
    ELSE digits_value(Tail(cs), acc * 10 + DigitValue(Head(cs)))

i64_from_str(cs) ==
    IF cs = <<>> THEN None
    ELSE IF Head(cs) \in {"+", "-"}
         THEN IF Tail(cs) = <<>> THEN None
              ELSE LET v == digits_value(Tail(cs), 0)
                   IN IF v = None THEN None
                      ELSE Some(IF Head(cs) = "-" THEN 0 - v[1] ELSE v[1])
    ELSE digits_value(cs, 0)

\* DateTime::parse_from_str(startTimeUTC + " +0000", "%Y-%m-%dT%H:%M:%SZ %z"):
\* Some([date, minute]) with the minute of the day, or None
parse_start_time(text) ==
    IF Len(text) # 6 THEN None
    ELSE LET date == from_ymd_opt(text[1], text[2], text[3])
         IN IF date # None /\ text[4] \in 0..23 /\ text[5] \in 0..59
               /\ text[6] \in 0..59
            THEN Some([date |-> date[1], minute |-> text[4] * 60 + text[5]])
            ELSE None

\* adjust_to_local_time: slicing venue_offset out of range panics, a slice that
\* is no number is an error, otherwise the date of the shifted time
adjust_to_local_time(start_time_utc, venue_offset) ==
    IF Len(venue_offset) < 3 THEN [tag |-> "panic", date |-> 0]
    ELSE LET hours_adj == i64_from_str(SubSeq(venue_offset, 1, 3))
         IN IF hours_adj = None THEN [tag |-> "Err", date |-> 0]
            ELSE IF Len(venue_offset) < 6 THEN [tag |-> "panic", date |-> 0]
            ELSE LET minutes_adj == i64_from_str(SubSeq(venue_offset, 5, 6))
                 IN IF minutes_adj = None THEN [tag |-> "Err", date |-> 0]
                    ELSE LET total_adj == hours_adj[1] * 60 + minutes_adj[1]
                         IN [tag |-> "Ok",
                             date |-> start_time_utc.date
                                      + ((start_time_utc.minute + total_adj) \div 1440)]

\* parse_goal_data: the goals of the events that are goals outside the
\* shootout; an event with an unknown side, without details or without an
\* owner team is left out
RECURSIVE goal_events_loop(_, _)
goal_events_loop(plays, found) ==
    IF plays = <<>> THEN found
    ELSE LET goal_event == Head(plays)
             rest == Tail(plays)
         IN IF ~(goal_event.typeDescKey = "goal"
                 /\ goal_event.periodDescriptor.periodType # "SO")
            THEN goal_events_loop(rest, found)
            ELSE IF goal_event.homeTeamDefendingSide \notin {"left", "right"}
            THEN goal_events_loop(rest, found)
            ELSE IF goal_event.details = None
            THEN goal_events_loop(rest, found)
            ELSE IF goal_event.details[1].eventOwnerTeamId = None
            THEN goal_events_loop(rest, found)
            ELSE goal_events_loop(rest,
                     Append(found,
                         [event_id |-> goal_event.eventId,
                          ppt_replay_url |-> goal_event.pptReplayUrl,
                          scoring_team_id |-> goal_event.details[1].eventOwnerTeamId[1],
                          home_team_defending_side |->
                              IF goal_event.homeTeamDefendingSide = "left"
                              THEN "Left" ELSE "Right"]))

\* parse_goal_data that takes every event for a goal
parse_goal_data_any_type(pbp) ==
    [goals |-> goal_events_loop(
                   [i \in 1..Len(pbp.plays) |->
                       [pbp.plays[i] EXCEPT !.typeDescKey = "goal"]], <<>>),
     home_team_id |-> pbp.homeTeam.id]

\* parse_goal_data that leaves out a goal without a replay URL
parse_goal_data_needs_url(pbp) ==
    [goals |-> goal_events_loop(
                   SelectSeq(pbp.plays, LAMBDA e : e.pptReplayUrl # None), <<>>),
     home_team_id |-> pbp.homeTeam.id]

\* parse_goal_data that keeps the goals of the shootout
parse_goal_data_with_shootout(pbp) ==
    [goals |-> goal_events_loop(
                   [i \in 1..Len(pbp.plays) |->
                       [pbp.plays[i] EXCEPT !.periodDescriptor.periodType = "REG"]],
                   <<>>),
     home_team_id |-> pbp.homeTeam.id]

parse_goal_data(pbp) ==
    [goals |-> goal_events_loop(pbp.plays, <<>>), home_team_id |-> pbp.homeTeam.id]

\* combine_pbp_boxscore_info
combine_pbp_boxscore_info(pbp_goals, boxscore) ==
    [goals |-> pbp_goals, home_team_id |-> boxscore.home_team_id]

\* a request sent upstream: the endpoint and the ids its URL is built from, or
\* the pptReplayUrl text requested as it is
Request(endpoint, season, game_id, event_id, direct) ==
    [endpoint |-> endpoint, season |-> season, game_id |-> game_id,
     event_id |-> event_id, direct |-> direct]

\* the URL of the tracking data with the game id and the event id interchanged
tracking_url_ids_interchanged(season, game_id, goal) ==
    IF goal.ppt_replay_url # None
    THEN Request("pptReplayUrl", 0, 0, 0, goal.ppt_replay_url[1])
    ELSE Request("sprites", season, goal.event_id, game_id, "")

\* save_goal_data, lines 33-39: the URL of the tracking data of a goal
tracking_url(season, game_id, goal) ==
    IF goal.ppt_replay_url # None
    THEN Request("pptReplayUrl", 0, 0, 0, goal.ppt_replay_url[1])
    ELSE Request("sprites", season, game_id, goal.event_id, "")

LEN_THRESHOLD == 10

\* save_goal_data that creates the output file before it sends the request
save_goal_data_create_first(season, game_id, goal, output_path, reply, disk, fs) ==
    LET created == [q \in DOMAIN fs \cup {output_path} |->
                       IF q = output_path THEN <<>> ELSE fs[q]]
    IN IF reply.kind = "send_error" \/ reply.status # 200 \/ reply.kind = "text_error"
       THEN [ok |-> FALSE, warned |-> FALSE, files |-> created]
       ELSE IF disk = "create_fails"
       THEN [ok |-> FALSE, warned |-> Len(reply.text) < LEN_THRESHOLD, files |-> fs]
       ELSE IF disk = "write_fails"
       THEN [ok |-> FALSE, warned |-> Len(reply.text) < LEN_THRESHOLD, files |-> created]
       ELSE [ok |-> TRUE, warned |-> Len(reply.text) < LEN_THRESHOLD,
             files |-> [q \in DOMAIN created |->
                           IF q = output_path THEN <<reply.text>> ELSE created[q]]]

\* save_goal_data opening the output file to append to it instead of
\* creating it anew
save_goal_data_append(season, game_id, goal, output_path, reply, disk, fs) ==
    IF reply.kind = "send_error" THEN [ok |-> FALSE, warned |-> FALSE, files |-> fs]
    ELSE IF reply.status # 200 THEN [ok |-> FALSE, warned |-> FALSE, files |-> fs]
    ELSE IF reply.kind = "text_error" THEN [ok |-> FALSE, warned |-> FALSE, files |-> fs]
    ELSE LET warned == Len(reply.text) < LEN_THRESHOLD
             before == IF output_path \in DOMAIN fs THEN fs[output_path] ELSE <<>>
         IN IF disk = "create_fails"
            THEN [ok |-> FALSE, warned |-> warned, files |-> fs]
            ELSE IF disk = "write_fails"
            THEN [ok |-> FALSE, warned |-> warned,
                  files |-> [q \in DOMAIN fs \cup {output_path} |->
                                IF q = output_path THEN before ELSE fs[q]]]
            ELSE [ok |-> TRUE, warned |-> warned,
                  files |-> [q \in DOMAIN fs \cup {output_path} |->
                                IF q = output_path
                                THEN Append(before, reply.text) ELSE fs[q]]]

\* save_goal_data, lines 40-64: reply is what the request comes back with and
\* disk how the file system answers create and write; the result is the
\* Result, the line printed if any, and the files afterwards (the content of
\* a file is the sequence of the texts written to it)
save_goal_data(season, game_id, goal, output_path, reply, disk, fs) ==
    IF reply.kind = "send_error" THEN [ok |-> FALSE, warned |-> FALSE, files |-> fs]
    ELSE IF reply.status # 200 THEN [ok |-> FALSE, warned |-> FALSE, files |-> fs]
    ELSE IF reply.kind = "text_error" THEN [ok |-> FALSE, warned |-> FALSE, files |-> fs]
    ELSE LET warned == Len(reply.text) < LEN_THRESHOLD
         IN IF disk = "create_fails"
            THEN [ok |-> FALSE, warned |-> warned, files |-> fs]
            ELSE IF disk = "write_fails"
            THEN [ok |-> FALSE, warned |-> warned,
                  files |-> [q \in DOMAIN fs \cup {output_path} |->
                                IF q = output_path THEN <<>> ELSE fs[q]]]
            ELSE [ok |-> TRUE, warned |-> warned,
                  files |-> [q \in DOMAIN fs \cup {output_path} |->
                                IF q = output_path THEN <<reply.text>> ELSE fs[q]]]

----------------------------------------------------------------------------
(* adjust_to_local_time taken alone: one call on a start time and an       *)
(* offset text                                                             *)

\* the hours of the offsets of the model go from 0 to MaxOffsetHours
MaxOffsetHours == 12

DigitChar(n) ==
    CASE n = 0 -> "0" [] n = 1 -> "1" [] n = 2 -> "2" [] n = 3 -> "3"
      [] n = 4 -> "4" [] n = 5 -> "5" [] n = 6 -> "6" [] n = 7 -> "7"
      [] n = 8 -> "8" [] n = 9 -> "9"

\* the text "+hh:mm" or "-hh:mm"
OffsetText(sign, hh, mm) ==
    <<sign, DigitChar(hh \div 10), DigitChar(hh % 10), ":",
      DigitChar(mm \div 10), DigitChar(mm % 10)>>

\* the offsets of the form "+hh:mm" and "-hh:mm", and texts of another form:
\* "", "Z", "EST", "-05", "-5:00" and "+05x30"
VenueOffsets ==
    { OffsetText(sign, hh, mm) :
          sign \in {"+", "-"}, hh \in 0..MaxOffsetHours, mm \in {0, 30, 45} }
    \cup { <<>>, <<"Z">>, <<"E", "S", "T">>, <<"-", "0", "5">>,
           <<"-", "5", ":", "0", "0">>, <<"+", "0", "5", "x", "3", "0">> }

\* the start times of the tests of adjust_to_local_time, and two close to
\* midnight at the start of a year and at the end of February
StartTimes ==
    { <<2025, 5, 3, 0, 0, 0>>, <<2025, 4, 30, 10, 0, 0>>, <<2025, 5, 1, 2, 0, 0>>,
      <<1912, 10, 20, 14, 0, 0>>, <<1934, 12, 31, 14, 0, 0>>,
      <<2025, 1, 1, 0, 15, 0>>, <<2024, 2, 29, 23, 45, 0>> }

InitAdjust ==
    /\ WalkIdle
    /\ ScheduleIdle
    /\ GameIdle
    /\ PeriodIdle
    /\ ExtractIdle
    /\ SaveIdle
    /\ adj_time \in StartTimes
    /\ adj_offset \in VenueOffsets
    /\ adj_out = None

\* adjust_to_local_time(start_time_utc, offset)
CallAdjustToLocalTime ==
    /\ adj_time # <<>>
    /\ adj_out = None
    /\ adj_out' = Some(adjust_to_local_time(parse_start_time(adj_time)[1], adj_offset))
    /\ UNCHANGED <<adj_time, adj_offset>>
    /\ UNCHANGED <<walk_vars, sched_vars, game_vars, period_vars, extract_vars,
                   save_vars>>

NextAdjust == CallAdjustToLocalTime

SpecAdjust == InitAdjust /\ [][NextAdjust]_vars

----------------------------------------------------------------------------
(* run_game taken alone: one call on a game, an empty output folder and    *)
(* whatever the upstream endpoints and the disk answer                     *)

FOLDER == "../data"
PBP_BOXSCORE_FILENAME == "pbp_boxscore.json"

\* the games run_game is called for: the games of the schedule, a game whose
\* start time is no time, one whose offset is no number, one whose offset is
\* too short to slice
RunGames ==
    ScheduleGames
    \cup { [id |-> 2024020003, season |-> 20242025,
            startTimeUTC |-> <<2025, 3, 1, 24, 0, 0>>,
            venueUTCOffset |-> <<"-", "0", "5", ":", "0", "0">>],
           [id |-> 2024020004, season |-> 20242025,
            startTimeUTC |-> <<2025, 3, 1, 0, 30, 0>>,
            venueUTCOffset |-> <<"E", "S", "T">>],
           [id |-> 2024020005, season |-> 20242025,
            startTimeUTC |-> <<2025, 3, 1, 0, 30, 0>>,
            venueUTCOffset |-> <<"-", "0", "5">>] }

\* how a request can come back: send() fails, another status than 200,
\* text() fails, a body that does not deserialize, a body that does
FailedReplies ==
    { [kind |-> "send_error", status |-> 0],
      [kind |-> "response", status |-> 404],
      [kind |-> "text_error", status |-> 200],
      [kind |-> "malformed", status |-> 200] }

HomeTeamId == 10
AwayTeamId == 20

BoxscoreReplies ==
    { [kind |-> r.kind, status |-> r.status, homeTeam |-> [id |-> 0]] :
          r \in FailedReplies }
    \cup { [kind |-> "json", status |-> 200, homeTeam |-> [id |-> HomeTeamId]] }

\* get_hometeam_id, lines 335-350
get_hometeam_id(reply) ==
    IF reply.kind = "json" /\ reply.status = 200
    THEN [ok |-> TRUE, home_team_id |-> reply.homeTeam.id]
    ELSE [ok |-> FALSE, home_team_id |-> 0]

\* the events of the play-by-play responses of the model
RunPlays ==
    { [eventId |-> 101, homeTeamDefendingSide |-> "left", typeDescKey |-> "goal",
       pptReplayUrl |-> Some("https://wsr.nhle.com/sprites/20242025/x/ev101.json"),
       details |-> Some([eventOwnerTeamId |-> Some(HomeTeamId)]),
       periodDescriptor |-> [periodType |-> "REG"]],
      [eventId |-> 102, homeTeamDefendingSide |-> "right", typeDescKey |-> "goal",
       pptReplayUrl |-> None,
       details |-> Some([eventOwnerTeamId |-> Some(AwayTeamId)]),
       periodDescriptor |-> [periodType |-> "OT"]],
      [eventId |-> 103, homeTeamDefendingSide |-> "left", typeDescKey |-> "goal",
       pptReplayUrl |-> None,
       details |-> Some([eventOwnerTeamId |-> Some(HomeTeamId)]),
       periodDescriptor |-> [periodType |-> "SO"]],
      [eventId |-> 104, homeTeamDefendingSide |-> "right", typeDescKey |-> "goal",
       pptReplayUrl |-> None,
       details |-> None,
       periodDescriptor |-> [periodType |-> "REG"]],
      [eventId |-> 105, homeTeamDefendingSide |-> "left", typeDescKey |-> "shot-on-goal",
       pptReplayUrl |-> None,
       details |-> Some([eventOwnerTeamId |-> Some(AwayTeamId)]),
       periodDescriptor |-> [periodType |-> "REG"]] }

\* the gameDate texts of the play-by-play responses of the model: the day on
\* which the start times of RunGames fall in UTC, and the day before
GameDates == { <<2025, 2, 28>>, <<2025, 3, 1>> }

PbpReplies(g) ==
    { [kind |-> r.kind, status |-> r.status, plays |-> <<>>, id |-> 0,
       season |-> 0, homeTeam |-> [id |-> 0], gameDate |-> <<>>] :
          r \in FailedReplies }
    \cup { [kind |-> "json", status |-> 200, plays |-> plays, id |-> g.id,
            season |-> g.season, homeTeam |-> [id |-> HomeTeamId],
            gameDate |-> date] :
               plays \in SeqsUpTo(RunPlays, MaxPlays), date \in GameDates }

\* get_pbp_data, lines 238-248
get_pbp_data(reply) ==
    IF reply.kind = "json" /\ reply.status = 200
    THEN [ok |-> TRUE, pbp |-> [plays |-> reply.plays, id |-> reply.id,
                                season |-> reply.season, homeTeam |-> reply.homeTeam,
                                gameDate |-> reply.gameDate]]
    ELSE [ok |-> FALSE, pbp |-> [plays |-> <<>>, id |-> 0, season |-> 0,
                                 homeTeam |-> [id |-> 0], gameDate |-> <<>>]]

\* how the request for the tracking data of a goal can come back
TrackingReplies ==
    { [kind |-> "send_error", status |-> 0, text |-> ""],
      [kind |-> "response", status |-> 404, text |-> ""],
      [kind |-> "text_error", status |-> 200, text |-> ""],
      [kind |-> "body", status |-> 200, text |-> "{}"],
      [kind |-> "body", status |-> 200, text |-> "{\"frames\":[1,2,3]}"] }

\* how the disk answers File::create followed by write!
DiskOutcomes == {"ok", "create_fails", "write_fails"}

\* the last component of a file path: a number printed with {} or a text
NumberName(n) == [text |-> "", number |-> n]
TextName(t) == [text |-> t, number |-> 0]

\* the leading parts of a path: what create_dir_all makes sure exists
PathPrefixes(path, n) == { SubSeq(path, 1, k) : k \in 1..n }

InitGame ==
    /\ WalkIdle
    /\ ScheduleIdle
    /\ PeriodIdle
    /\ AdjustIdle
    /\ SaveIdle
    /\ ExtractIdle
    /\ g_pc = "enter"
    /\ game \in { Some(g) : g \in RunGames }
    /\ game_path = <<>>
    /\ boxscore_info = None
    /\ game_pbp = None
    /\ goals = <<>>
    /\ goal_idx = 1
    /\ dirs = {}
    /\ files = <<>>
    /\ g_result = "running"
    /\ requests = <<>>
    /\ saved = <<>>
    /\ env_log = <<>>
    /\ env_pos = 0
    /\ once = None

\* return from run_game
Return(r) ==
    /\ g_pc' = "returned"
    /\ g_result' = r

\* the disk or the upstream answers x: the first run takes any answer and
\* notes it, a later run for the same game is given the answers of the first
Answered(x) ==
    /\ env_pos' = env_pos + 1
    /\ IF env_pos < Len(env_log)
       THEN /\ x = env_log[env_pos + 1]
            /\ UNCHANGED env_log
       ELSE env_log' = Append(env_log, x)

\* run_game, lines 249-292: the date of the game, its folder, create_dir_all
RunGameEnter ==
    /\ g_pc = "enter"
    /\ LET game_date == parse_start_time(game[1].startTimeUTC)
       IN IF game_date = None
          THEN /\ Return("Err: start time")
               /\ UNCHANGED <<game_path, dirs, env_log, env_pos>>
          ELSE LET adjusted == adjust_to_local_time(game_date[1], game[1].venueUTCOffset)
                   adjusted_game_date ==
                       IF adjusted.tag = "Ok" THEN adjusted.date ELSE game_date[1].date
                   path == <<FOLDER, game[1].season,
                             format_ymd(adjusted_game_date), game[1].id>>
               IN IF adjusted.tag = "panic"
                  THEN /\ Return("panic")
                       /\ UNCHANGED <<game_path, dirs, env_log, env_pos>>
                  ELSE /\ game_path' = path
                       /\ \E made \in 0..Len(path) :
                            /\ Answered([made |-> made])
                            /\ dirs' = dirs \cup PathPrefixes(path, made)
                            /\ IF made = Len(path)
                               THEN /\ g_pc' = "boxscore"
                                    /\ UNCHANGED g_result
                               ELSE Return("Err: creating path")
    /\ run_log' = Append(run_log, game[1].id)
    /\ UNCHANGED <<game, boxscore_info, game_pbp, goals, goal_idx, files, requests,
                   saved, once>>
    /\ UNCHANGED <<pc, args, start_date, end_date, period, games, game_idx,
                   result, stdout, iterations>>
    /\ UNCHANGED <<sched_vars, call_vars>>

\* run_game, lines 294-306: the home team id from the boxscore endpoint
GetHometeamId ==
    /\ g_pc = "boxscore"
    /\ requests' = Append(requests, Request("boxscore", 0, game[1].id, 0, ""))
    /\ \E reply \in BoxscoreReplies :
         /\ Answered([reply |-> reply])
         /\ LET boxscore_info_result == get_hometeam_id(reply)
            IN IF boxscore_info_result.ok
               THEN /\ boxscore_info' =
                           Some([home_team_id |-> boxscore_info_result.home_team_id])
                    /\ g_pc' = "pbp"
                    /\ UNCHANGED g_result
               ELSE /\ Return("Err: boxscore")
                    /\ UNCHANGED boxscore_info
    /\ UNCHANGED <<game, game_path, game_pbp, goals, goal_idx, dirs, files, saved,
                   once>>
    /\ UNCHANGED <<walk_vars, sched_vars, call_vars>>

\* run_game, lines 308-325: the play-by-play data and its goals
GetPbpData ==
    /\ g_pc = "pbp"
    /\ requests' = Append(requests, Request("play-by-play", 0, game[1].id, 0, ""))
    /\ \E reply \in PbpReplies(game[1]) :
         /\ Answered([reply |-> reply])
         /\ LET pbp_result == get_pbp_data(reply)
            IN IF pbp_result.ok
               THEN /\ game_pbp' = Some(pbp_result.pbp)
                    /\ goals' = parse_goal_data(pbp_result.pbp).goals
                    /\ goal_idx' = 1
                    /\ g_pc' = "goals"
                    /\ UNCHANGED g_result
               ELSE /\ Return("Err: play-by-play")
                    /\ UNCHANGED <<game_pbp, goals, goal_idx>>
    /\ UNCHANGED <<game, game_path, boxscore_info, dirs, files, saved, once>>
    /\ UNCHANGED <<walk_vars, sched_vars, call_vars>>

\* the error of save_goal_data returned from run_game instead of printed
after_save_goal_stop_on_error(save) ==
    IF save.ok
    THEN /\ goal_idx' = goal_idx + 1
         /\ UNCHANGED <<g_pc, g_result>>
    ELSE /\ Return("Err: saving goal data")
         /\ UNCHANGED goal_idx

\* what the loop does after save_goal_data returned, lines 331-339: an error
\* is printed and the loop goes on
after_save_goal(save) ==
    /\ goal_idx' = goal_idx + 1
    /\ UNCHANGED <<g_pc, g_result>>

\* run_game, lines 328-340: one pass of the for loop over the goals
SaveGoal ==
    /\ g_pc = "goals"
    /\ goal_idx <= Len(goals)
    /\ LET goal == goals[goal_idx]
           output_path == Append(game_path, NumberName(goal.event_id))
       IN /\ requests' = Append(requests,
                                tracking_url(game[1].season, game[1].id, goal))
          /\ \E reply \in TrackingReplies :
             \E disk \in IF reply.kind = "body" THEN DiskOutcomes ELSE {"ok"} :
               /\ Answered([reply |-> reply, disk |-> disk])
               /\ LET save == save_goal_data(game[1].season, game[1].id, goal,
                                             output_path, reply, disk, files)
                  IN /\ files' = save.files
                     /\ saved' = Append(saved, save.ok)
                     /\ after_save_goal(save)
    /\ UNCHANGED <<game, game_path, boxscore_info, game_pbp, goals, dirs, once>>
    /\ UNCHANGED <<walk_vars, sched_vars, call_vars>>

\* run_game, lines 342-354: the combined file
WritePbpBoxscore ==
    /\ g_pc = "goals"
    /\ goal_idx > Len(goals)
    /\ LET pbp_boxscore_info == combine_pbp_boxscore_info(goals, boxscore_info[1])
           pbp_boxscore_path == Append(game_path, TextName(PBP_BOXSCORE_FILENAME))
       IN \E disk \in DiskOutcomes :
            /\ Answered([disk |-> disk])
            /\ CASE disk = "create_fails" ->
                      /\ Return("Err: create pbp_boxscore")
                      /\ UNCHANGED files
                 [] disk = "write_fails" ->
                      /\ files' = [q \in DOMAIN files \cup {pbp_boxscore_path} |->
                                      IF q = pbp_boxscore_path THEN <<>> ELSE files[q]]
                      /\ Return("Err: write pbp_boxscore")
                 [] disk = "ok" ->
                      /\ files' = [q \in DOMAIN files \cup {pbp_boxscore_path} |->
                                      IF q = pbp_boxscore_path
                                      THEN <<pbp_boxscore_info>> ELSE files[q]]
                      /\ Return("Ok")
    /\ UNCHANGED <<game, game_path, boxscore_info, game_pbp, goals, goal_idx, dirs,
                   requests, saved, once>>
    /\ UNCHANGED <<walk_vars, sched_vars, call_vars>>

NextGame ==
    RunGameEnter \/ GetHometeamId \/ GetPbpData \/ SaveGoal \/ WritePbpBoxscore

SpecGame == InitGame /\ [][NextGame]_vars

----------------------------------------------------------------------------
\* run_game called a second time for the same game: the folders and files of
\* the first call are still there, and the disk and the upstream answer as
\* they did the first time

\* the second call of run_game, main.rs lines 238-248: everything local to the
\* call starts afresh, the file system is what the first call left
RunAgain ==
    /\ g_pc = "returned"
    /\ once = None
    /\ once' = Some([files |-> files, dirs |-> dirs, result |-> g_result])
    /\ g_pc' = "enter"
    /\ game_path' = <<>>
    /\ boxscore_info' = None
    /\ game_pbp' = None
    /\ goals' = <<>>
    /\ goal_idx' = 1
    /\ g_result' = "running"
    /\ requests' = <<>>
    /\ saved' = <<>>
    /\ env_pos' = 0
    /\ UNCHANGED <<game, dirs, files, env_log>>
    /\ UNCHANGED <<walk_vars, sched_vars, call_vars>>

\* the play-by-play responses of the games called twice hold at most
\* MaxRerunPlays plays
MaxRerunPlays == 1

RerunGetPbpData ==
    /\ GetPbpData
    /\ game_pbp' # None => Len(game_pbp'[1].plays) <= MaxRerunPlays

NextRerun ==
    \/ RunGameEnter
    \/ GetHometeamId
    \/ RerunGetPbpData
    \/ SaveGoal
    \/ WritePbpBoxscore
    \/ RunAgain

SpecRerun == InitGame /\ [][NextRerun]_vars

----------------------------------------------------------------------------
(* save_goal_data taken alone: one call on a goal and a file system        *)

\* the goals save_goal_data is called for: one with a replay URL, one without
SaveGoals ==
    { found[1] : found \in { g \in { goal_events_loop(<<e>>, <<>>) : e \in RunPlays } :
                                g # <<>> } }

\* the season, the game id and the folder of the game of these calls
SaveGame == CHOOSE g \in ScheduleGames : g.id = 2024020001

SaveFolder == <<FOLDER, SaveGame.season, <<2025, 2, 28>>, SaveGame.id>>

\* the output path run_game gives to save_goal_data, main.rs 330
OutputPathOf(goal) == Append(SaveFolder, NumberName(goal.event_id))

\* the files that exist before the call: none, the output file written by an
\* earlier run, pbp_boxscore.json, or both
SaveFileSystems(output_path) ==
    LET other == Append(SaveFolder, TextName(PBP_BOXSCORE_FILENAME))
    IN { <<>>,
         [q \in {output_path} |-> <<"{\"frames\":[9,9,9]}">>],
         [q \in {other} |-> <<"{\"goals\":[]}">>],
         [q \in {output_path, other} |->
             IF q = output_path THEN <<"{\"frames\":[9,9,9]}">> ELSE <<"{\"goals\":[]}">>] }

InitSave ==
    /\ WalkIdle
    /\ ScheduleIdle
    /\ GameIdle
    /\ PeriodIdle
    /\ AdjustIdle
    /\ ExtractIdle
    /\ save_in \in UNION { { Some([goal |-> g, fs |-> fs, reply |-> reply,
                                    disk |-> disk]) :
                                 fs \in SaveFileSystems(OutputPathOf(g)),
                                 reply \in TrackingReplies, disk \in DiskOutcomes } :
                             g \in SaveGoals }
    /\ save_out = None

\* save_goal_data(&client, headers, season, game_id, goal, output_path)
CallSaveGoalData ==
    /\ save_in # None
    /\ save_out = None
    /\ save_out' = Some(save_goal_data(SaveGame.season, SaveGame.id, save_in[1].goal,
                                       OutputPathOf(save_in[1].goal), save_in[1].reply,
                                       save_in[1].disk, save_in[1].fs))
    /\ UNCHANGED save_in
    /\ UNCHANGED <<walk_vars, sched_vars, game_vars, period_vars, extract_vars,
                   adjust_vars>>

NextSave == CallSaveGoalData

SpecSave == InitSave /\ [][NextSave]_vars

----------------------------------------------------------------------------
(* The landing endpoint: extract_export_game_data                          *)

\* goals in one period of a landing response
MaxGoalsPerPeriod == 2

\* the scoring team taken to be the home team whoever scored
scoring_team_id_home(landing, g) == landing.homeTeam.id

\* scoring_team_id, lines 459-463
scoring_team_id(landing, g) ==
    IF g.isHome THEN landing.homeTeam.id ELSE landing.awayTeam.id

\* the loop over the goals of one period, lines 458-482: a side that is
\* neither "left" nor "right" returns the error from the whole function
RECURSIVE goal_info_loop(_, _, _)
goal_info_loop(landing, gs, found) ==
    IF gs = <<>> THEN [ok |-> TRUE, goals |-> found]
    ELSE LET g == Head(gs)
         IN IF g.homeTeamDefendingSide = "left"
            THEN goal_info_loop(landing, Tail(gs),
                     Append(found,
                         [event_id |-> g.eventId,
                          ppt_replay_url |-> g.pptReplayUrl,
                          scoring_team_id |-> scoring_team_id(landing, g),
                          home_team_defending_side |-> "Left"]))
            ELSE IF g.homeTeamDefendingSide = "right"
            THEN goal_info_loop(landing, Tail(gs),
                     Append(found,
                         [event_id |-> g.eventId,
                          ppt_replay_url |-> g.pptReplayUrl,
                          scoring_team_id |-> scoring_team_id(landing, g),
                          home_team_defending_side |-> "Right"]))
            ELSE [ok |-> FALSE, goals |-> <<>>]

\* the loop over landing_resp.summary.scoring, lines 451-483: a shootout
\* period is passed over
RECURSIVE period_loop(_, _, _)
period_loop(landing, periods, found) ==
    IF periods = <<>> THEN [ok |-> TRUE, goals |-> found]
    ELSE IF Head(periods).periodDescriptor.periodType = "SO"
    THEN period_loop(landing, Tail(periods), found)
    ELSE LET r == goal_info_loop(landing, Head(periods).goals, found)
         IN IF r.ok THEN period_loop(landing, Tail(periods), r.goals) ELSE r

\* the landing response with every period taken for a regulation period
AllPeriodsRegulation(landing) ==
    [landing EXCEPT !.summary.scoring =
        [i \in 1..Len(@) |-> [@[i] EXCEPT !.periodDescriptor.periodType = "REG"]]]

\* extract_export_game_data that does not pass over the shootout
extract_export_game_data_with_shootout(landing) ==
    LET r == period_loop(landing, AllPeriodsRegulation(landing).summary.scoring, <<>>)
    IN IF r.ok
       THEN [ok |-> TRUE, goals |-> r.goals, home_team_id |-> landing.homeTeam.id]
       ELSE [ok |-> FALSE, goals |-> <<>>, home_team_id |-> 0]

\* the goals of a period whose side is "left" or "right"
GoalsWithSide(gs) ==
    SelectSeq(gs, LAMBDA g : g.homeTeamDefendingSide \in {"left", "right"})

\* extract_export_game_data that leaves out a goal with an unknown side
extract_export_game_data_skip_invalid(landing) ==
    LET scoring == [i \in 1..Len(landing.summary.scoring) |->
                       [landing.summary.scoring[i] EXCEPT !.goals = GoalsWithSide(@)]]
        r == period_loop(landing, scoring, <<>>)
    IN [ok |-> TRUE, goals |-> r.goals, home_team_id |-> landing.homeTeam.id]

\* extract_export_game_data that tests the side of every goal entry, those of
\* the shootout included, before it passes over the shootout
extract_export_game_data_side_first(landing) ==
    LET scoring == landing.summary.scoring
        r == period_loop(landing, scoring, <<>>)
    IN IF r.ok /\ \A i \in 1..Len(scoring) : GoalsWithSide(scoring[i].goals) = scoring[i].goals
       THEN [ok |-> TRUE, goals |-> r.goals, home_team_id |-> landing.homeTeam.id]
       ELSE [ok |-> FALSE, goals |-> <<>>, home_team_id |-> 0]

\* extract_export_game_data, lines 447-487: Ok(GameExportData) or Err
extract_export_game_data(landing) ==
    LET r == period_loop(landing, landing.summary.scoring, <<>>)
    IN IF r.ok
       THEN [ok |-> TRUE, goals |-> r.goals, home_team_id |-> landing.homeTeam.id]
       ELSE [ok |-> FALSE, goals |-> <<>>, home_team_id |-> 0]

\* the GoalInfo entries of the landing responses of the model: an away goal
\* with a replay URL, a home goal without, and a goal whose side is no side
LandingGoals ==
    { [eventId |-> 12, pptReplayUrl |-> Some("nhl.com"),
       homeTeamDefendingSide |-> "right", isHome |-> FALSE],
      [eventId |-> 170, pptReplayUrl |-> None,
       homeTeamDefendingSide |-> "left", isHome |-> TRUE],
      [eventId |-> 120, pptReplayUrl |-> Some("nhl.com"),
       homeTeamDefendingSide |-> "center", isHome |-> TRUE] }

\* the period types of the periods of a game, in order
PeriodTypeLists ==
    { <<>>, <<"REG">>, <<"SO">>, <<"REG", "OT">>, <<"REG", "SO">>,
      <<"SO", "REG">> }

\* the pairs of home team and away team
Teams ==
    { [homeTeam |-> [id |-> HomeTeamId], awayTeam |-> [id |-> AwayTeamId]],
      [homeTeam |-> [id |-> AwayTeamId], awayTeam |-> [id |-> HomeTeamId]] }

LandingResponses ==
    UNION { { [id |-> 2024020001, season |-> 20242025, gameDate |-> <<2025, 2, 28>>,
               homeTeam |-> t.homeTeam, awayTeam |-> t.awayTeam,
               summary |-> [scoring |->
                   [i \in 1..Len(types) |->
                       [periodDescriptor |-> [periodType |-> types[i]],
                        goals |-> gl[i]]]]] :
                 gl \in [1..Len(types) -> SeqsUpTo(LandingGoals, MaxGoalsPerPeriod)],
                 t \in Teams } :
            types \in PeriodTypeLists }

\* the play-by-play events of one period of a landing response: the start of
\* the period, then its goals in order, each owned by the team that scored
PlaysOfPeriod(landing, p) ==
    << [eventId |-> 1, homeTeamDefendingSide |-> "left",
        typeDescKey |-> "period-start", pptReplayUrl |-> None, details |-> None,
        periodDescriptor |-> p.periodDescriptor] >>
    \o [i \in 1..Len(p.goals) |->
           [eventId |-> p.goals[i].eventId,
            homeTeamDefendingSide |-> p.goals[i].homeTeamDefendingSide,
            typeDescKey |-> "goal",
            pptReplayUrl |-> p.goals[i].pptReplayUrl,
            details |-> Some([eventOwnerTeamId |->
                                 Some(scoring_team_id(landing, p.goals[i]))]),
            periodDescriptor |-> p.periodDescriptor]]

RECURSIVE PlaysOfPeriods(_, _)
PlaysOfPeriods(landing, periods) ==
    IF periods = <<>> THEN <<>>
    ELSE PlaysOfPeriod(landing, Head(periods))
         \o PlaysOfPeriods(landing, Tail(periods))

\* the PbpResponse of the game a landing response describes
PlayByPlayOf(landing) ==
    [plays |-> PlaysOfPeriods(landing, landing.summary.scoring),
     id |-> landing.id, season |-> landing.season, homeTeam |-> landing.homeTeam,
     gameDate |-> landing.gameDate]

\* both endpoints answer for the same game
InitExport ==
    /\ WalkIdle
    /\ ScheduleIdle
    /\ GameIdle
    /\ PeriodIdle
    /\ AdjustIdle
    /\ SaveIdle
    /\ landing_resp \in { Some(l) : l \in LandingResponses }
    /\ pbp_resp = Some(PlayByPlayOf(landing_resp[1]))
    /\ landing_out = None
    /\ pbp_out = None

\* extract_export_game_data(&landing_resp)
CallExtractExportGameData ==
    /\ landing_resp # None
    /\ landing_out = None
    /\ landing_out' = Some(extract_export_game_data(landing_resp[1]))
    /\ UNCHANGED <<landing_resp, pbp_resp, pbp_out>>
    /\ UNCHANGED <<walk_vars, sched_vars, game_vars, period_vars, adjust_vars,
                   save_vars>>

\* parse_goal_data(pbp_resp)
CallParseGoalData ==
    /\ pbp_resp # None
    /\ pbp_out = None
    /\ pbp_out' = Some(parse_goal_data(pbp_resp[1]))
    /\ UNCHANGED <<landing_resp, pbp_resp, landing_out>>
    /\ UNCHANGED <<walk_vars, sched_vars, game_vars, period_vars, adjust_vars,
                   save_vars>>

NextExport == CallExtractExportGameData \/ CallParseGoalData

SpecExport == InitExport /\ [][NextExport]_vars

----------------------------------------------------------------------------
(* parse_goal_data taken alone: one call on a play-by-play response        *)

\* events in one play-by-play response handed to parse_goal_data alone
MaxEvents == 3

\* the events of these responses: those of RunPlays, a goal whose side is no
\* side, a goal whose details name no team, and a shootout goal with neither
\* a side nor details
ParseEvents ==
    RunPlays
    \cup { [eventId |-> 106, homeTeamDefendingSide |-> "center", typeDescKey |-> "goal",
            pptReplayUrl |-> Some("https://wsr.nhle.com/sprites/20242025/x/ev106.json"),
            details |-> Some([eventOwnerTeamId |-> Some(HomeTeamId)]),
            periodDescriptor |-> [periodType |-> "REG"]],
           [eventId |-> 107, homeTeamDefendingSide |-> "right", typeDescKey |-> "goal",
            pptReplayUrl |-> None,
            details |-> Some([eventOwnerTeamId |-> None]),
            periodDescriptor |-> [periodType |-> "OT"]],
           [eventId |-> 108, homeTeamDefendingSide |-> "", typeDescKey |-> "goal",
            pptReplayUrl |-> None,
            details |-> None,
            periodDescriptor |-> [periodType |-> "SO"]] }

PbpResponses ==
    { [plays |-> plays, id |-> 2024020001, season |-> 20242025,
       homeTeam |-> [id |-> HomeTeamId], gameDate |-> <<2025, 2, 28>>] :
          plays \in SeqsUpTo(ParseEvents, MaxEvents) }

InitParse ==
    /\ WalkIdle
    /\ ScheduleIdle
    /\ GameIdle
    /\ PeriodIdle
    /\ AdjustIdle
    /\ SaveIdle
    /\ landing_resp = None
    /\ pbp_resp \in { Some(r) : r \in PbpResponses }
    /\ landing_out = None
    /\ pbp_out = None

NextParse == CallParseGoalData

SpecParse == InitParse /\ [][NextParse]_vars

----------------------------------------------------------------------------
(* Properties of the date-range walk (specification Spec)                  *)

\* the dates the command line gave
FirstStartDate == parse_date_args(args).dates[1]
LastDate == parse_date_args(args).dates[2]

\* C1: every period handed to the schedule lookup is the window
\* [start_date, min(start_date + 6 days, end_date)], it spans 0 to 6 days, and
\* the "Invalid period" branch is never taken.
QueryWindowIsClampedWeek ==
    /\ stdout # "Invalid period"
    /\ pc \in {"lookup", "games"} =>
         /\ period = Some([start_date |-> start_date,
                           end_date |-> Min(start_date + 6, end_date)])
         /\ period[1].end_date - period[1].start_date \in 0..6

\* C1 witness: after a first stride, a window cut short by end_date is handed
\* to the schedule lookup.
ClampedWindowQueried ==
    /\ pc = "lookup"
    /\ iterations >= 1
    /\ period[1].end_date = end_date
    /\ start_date + 6 > end_date

\* C2: every step that ends an iteration of the while loop (normal end of the
\* period, failed construction, failed lookup) leaves start_date exactly
\* 7 days later.
IterationAdvancesSevenDays ==
    [][(pc \in {"loop", "lookup", "games"} /\ pc' = "loop")
          => start_date' = start_date + 7]_vars

\* C2 witness: a second iteration whose window was shorter than a week and
\* whose lookup failed has ended, 7 days after its start.
ShortWindowLookupFailedAdvanced ==
    /\ pc = "loop"
    /\ iterations >= 2
    /\ stdout = "Error retrieving game ids"
    /\ period[1].end_date - period[1].start_date < 6
    /\ start_date = period[1].start_date + 7

\* C3: the walk stops exactly when start_date > end_date, after
\* ceil((end_date - start_date + 1) / 7) iterations (none for a reversed
\* range), whatever failed on the way.
WalkStopsPastEndDate ==
    (pc = "done" /\ parse_date_args(args).ok) =>
        /\ start_date > end_date
        /\ iterations = IF FirstStartDate <= LastDate
                        THEN (LastDate - FirstStartDate + 7) \div 7
                        ELSE 0

\* The statement of C3 for the runs that do not panic.
WalkStopsPastEndDateUnlessPanic ==
    (pc = "done" /\ result = "Ok") =>
        /\ start_date > end_date
        /\ iterations = IF FirstStartDate <= LastDate
                        THEN (LastDate - FirstStartDate + 7) \div 7
                        ELSE 0

\* C4: when the for loop over the games of a period has ended, run_game has
\* been called exactly once for each game of the period, in order.
EveryGameOfPeriodIsRun ==
    (pc = "games" /\ game_idx > Len(games)) =>
        run_log = [i \in 1..Len(games) |-> games[i].id]

\* C8: once the command-line dates are accepted the walk reaches its end and
\* the process result is success.
AcceptedWalkEndsInSuccess ==
    (pc = "done" /\ parse_date_args(args).ok) => result = "Ok"

----------------------------------------------------------------------------
(* Properties of get_game_ids_period (specification SpecSchedule)          *)

\* the games of the day buckets whose date d satisfies s <= d <= e, in
\* upstream day order and game order
RECURSIVE GamesOfDaysBetween(_, _, _)
GamesOfDaysBetween(gameWeek, s, e) ==
    IF gameWeek = <<>> THEN <<>>
    ELSE LET d == parse_from_str(Head(gameWeek).date)[1]
         IN (IF s <= d /\ d <= e THEN Head(gameWeek).games ELSE <<>>)
            \o GamesOfDaysBetween(Tail(gameWeek), s, e)

AllDatesParse(gameWeek) ==
    \A i \in 1..Len(gameWeek) : parse_from_str(gameWeek[i].date) # None

LookupFailureIsErrorValue ==
    (/\ sched_out # None
     /\ \/ sched_reply[1].kind # "json"
        \/ ~AllDatesParse(sched_reply[1].gameWeek))
    => sched_out[1] = [tag |-> "Err", games |-> <<>>]

----------------------------------------------------------------------------
(* Properties of run_game (specification SpecGame)                         *)

\* the endpoints requested so far, in order
Endpoints == [i \in 1..Len(requests) |-> requests[i].endpoint]

\* run_game returned an error because game data could not be obtained
ExtractionFailed ==
    g_pc = "returned" /\ g_result \in {"Err: boxscore", "Err: play-by-play"}

\* the files inside the folder of the game
FilesOfGame ==
    { q \in DOMAIN files : Len(q) > Len(game_path)
                           /\ SubSeq(q, 1, Len(game_path)) = game_path }

\* C5: the landing (summary) extraction is requested first, the play-by-play
\* extraction only as the second attempt after it, and the run fails for want
\* of game data only when both were tried.
GameRunTriesLandingThenPlayByPlay ==
    /\ requests # <<>> => Endpoints[1] = "landing"
    /\ \A i \in 1..Len(requests) :
           Endpoints[i] = "play-by-play" => (i = 2 /\ Endpoints[1] = "landing")
    /\ ExtractionFailed =>
           (Len(requests) >= 2 /\ Endpoints[1] = "landing"
            /\ Endpoints[2] = "play-by-play")

\* C6: after a run that failed for want of game data, neither the folder of
\* the game nor any file in it exists.
NoOutputAfterFailedExtraction ==
    ExtractionFailed => (game_path \notin dirs /\ FilesOfGame = {})

\* C7: a goal whose tracking data could not be fetched or saved does not stop
\* the run: every goal is tried in order, run_game never returns the error of
\* a goal, and when it returns Ok pbp_boxscore.json holds the full goal list.
GoalFailureDoesNotStopGameRun ==
    /\ g_pc = "goals" => Len(saved) = goal_idx - 1
    /\ (g_pc = "returned" /\ \E i \in 1..Len(saved) : ~saved[i]) =>
          /\ Len(saved) = Len(goals)
          /\ Len(requests) = 2 + Len(goals)
          /\ \A i \in 1..Len(goals) :
                \/ requests[2 + i].event_id = goals[i].event_id
                \/ goals[i].ppt_replay_url = Some(requests[2 + i].direct)
          /\ g_result \in {"Ok", "Err: create pbp_boxscore", "Err: write pbp_boxscore"}
          /\ g_result = "Ok" =>
                files[Append(game_path, TextName("pbp_boxscore.json"))]
                    = << [goals |-> goals,
                          home_team_id |-> boxscore_info[1].home_team_id] >>

\* C7 witness: the first of two goals failed, the second was saved, the run
\* returned Ok and the combined file lists both goals.
GameRunOkAfterFailedGoal ==
    /\ g_pc = "returned"
    /\ g_result = "Ok"
    /\ saved = <<FALSE, TRUE>>
    /\ Len(files[Append(game_path, TextName("pbp_boxscore.json"))][1].goals) = 2

----------------------------------------------------------------------------
(* Properties of WeekOrShorterPeriod (specification SpecPeriod)            *)

\* the number of days from the start date to the end date handed to try_new
DaysBetween == DateOf(wosp_end) - DateOf(wosp_start)

\* C11: for an end date 0 to 6 days after the start date (the same day, a
\* full week, across a month or a year end) try_new succeeds and
\* get_start_date gives back the start date as YYYY-MM-DD.
ShortPeriodIsMadeAndNamesItsStart ==
    (wosp # None /\ DaysBetween >= 0 /\ DaysBetween <= 6) =>
        /\ wosp[1].ok
        /\ wosp_text # None => wosp_text[1] = wosp_start

\* C11 witness: a period of exactly 6 days across the end of the year was made
\* and named its start.
FullWeekAcrossYearEndNamed ==
    /\ wosp_start = <<2024, 12, 29>>
    /\ wosp_end = <<2025, 1, 4>>
    /\ wosp # None
    /\ wosp[1].ok
    /\ wosp_text = Some(<<2024, 12, 29>>)

\* C12: for an end date before the start date, or more than 6 days after it,
\* try_new returns an error and no period is made.
LongOrReversedPeriodIsRefused ==
    (wosp # None /\ (DaysBetween < 0 \/ DaysBetween > 6)) =>
        /\ ~wosp[1].ok
        /\ wosp_text = None
        /\ wosp_within = None

\* C12 witness: try_new refused an end date 7 days after the start date,
\* across the end of February of a leap year.
EightDayPeriodRefused ==
    /\ wosp_start = <<2024, 2, 26>>
    /\ wosp_end = <<2024, 3, 4>>
    /\ wosp # None
    /\ ~wosp[1].ok

\* C13: within(d) is true exactly when start <= d <= end, both ends included;
\* it is false the day before the start and the day after the end.
WithinIsInclusiveOfBothEnds ==
    wosp_within # None =>
        /\ wosp_within[1].within
              <=> (DateOf(wosp_start) <= wosp_within[1].date
                   /\ wosp_within[1].date <= DateOf(wosp_end))
        /\ wosp_within[1].date \in {DateOf(wosp_start) - 1, DateOf(wosp_end) + 1}
              => ~wosp_within[1].within

\* C13 witness: within was true on the start date of a period that goes on
\* into the next month.
WithinOnStartDateAcrossMonths ==
    /\ wosp_within # None
    /\ wosp_start = <<2025, 1, 30>>
    /\ wosp_end = <<2025, 2, 5>>
    /\ wosp_within[1].date = DateOf(wosp_start)
    /\ wosp_within[1].within

----------------------------------------------------------------------------
(* Properties of extract_export_game_data (specification SpecExport)       *)

\* the goal entries of the periods that are not the shootout, in period order
\* and then in goal order
RECURSIVE GoalEntriesOutsideShootout(_)
GoalEntriesOutsideShootout(periods) ==
    IF periods = <<>> THEN <<>>
    ELSE (IF Head(periods).periodDescriptor.periodType # "SO"
          THEN Head(periods).goals ELSE <<>>)
         \o GoalEntriesOutsideShootout(Tail(periods))

\* the entries the landing response of the state has outside the shootout
LandingEntries == GoalEntriesOutsideShootout(landing_resp[1].summary.scoring)

ValidSide(side) == side \in {"left", "right"}

\* C14: when extract_export_game_data succeeds its goals are exactly the goal
\* entries of the periods that are not "SO", in period order and then goal
\* order, each with the event id and the replay URL of its entry.
ExportHoldsGoalsOutsideShootoutInOrder ==
    (landing_out # None /\ landing_out[1].ok) =>
        /\ Len(landing_out[1].goals) = Len(LandingEntries)
        /\ \A i \in 1..Len(LandingEntries) :
              /\ landing_out[1].goals[i].event_id = LandingEntries[i].eventId
              /\ landing_out[1].goals[i].ppt_replay_url = LandingEntries[i].pptReplayUrl

\* C14 witness: of a regulation period with two different goals and a shootout
\* with a goal, the two regulation goals came out in their order.
ExportOfRegulationThenShootout ==
    /\ landing_out # None
    /\ landing_out[1].ok
    /\ Len(landing_resp[1].summary.scoring) = 2
    /\ landing_resp[1].summary.scoring[2].periodDescriptor.periodType = "SO"
    /\ landing_resp[1].summary.scoring[2].goals # <<>>
    /\ Len(landing_out[1].goals) = 2
    /\ landing_out[1].goals[1].event_id = 170
    /\ landing_out[1].goals[2].event_id = 12

\* C15: the scoring team of every goal of the export is the home team of the
\* response when the entry has isHome and the away team otherwise, and the
\* home_team_id of the export is the home team of the response whatever the
\* goals are.
ExportScoringTeamFollowsIsHome ==
    (landing_out # None /\ landing_out[1].ok) =>
        /\ landing_out[1].home_team_id = landing_resp[1].homeTeam.id
        /\ Len(landing_out[1].goals) = Len(LandingEntries)
        /\ \A i \in 1..Len(LandingEntries) :
              landing_out[1].goals[i].scoring_team_id =
                  IF LandingEntries[i].isHome
                  THEN landing_resp[1].homeTeam.id
                  ELSE landing_resp[1].awayTeam.id

\* C15 witness: an away goal and then a home goal came out with the ids of the
\* away team and of the home team.
ExportOfAwayGoalThenHomeGoal ==
    /\ landing_out # None
    /\ landing_out[1].ok
    /\ Len(landing_out[1].goals) = 2
    /\ ~LandingEntries[1].isHome
    /\ LandingEntries[2].isHome
    /\ landing_out[1].goals[1].scoring_team_id = landing_resp[1].awayTeam.id
    /\ landing_out[1].goals[2].scoring_team_id = landing_resp[1].homeTeam.id

\* C16: extract_export_game_data fails, with no goal list, exactly when a goal
\* entry outside the shootout has a side other than "left" and "right",
\* wherever the entry stands.
ExportFailsOnAnyInvalidSide ==
    landing_out # None =>
        /\ ~landing_out[1].ok <=>
              \E i \in 1..Len(LandingEntries) :
                  ~ValidSide(LandingEntries[i].homeTeamDefendingSide)
        /\ ~landing_out[1].ok => landing_out[1].goals = <<>>

\* C16 witness: the call failed on a response whose only entry with an invalid
\* side is the last one, in the second period, after three valid entries.
ExportFailedOnLastEntry ==
    /\ landing_out # None
    /\ ~landing_out[1].ok
    /\ Len(LandingEntries) = 4
    /\ Len(landing_resp[1].summary.scoring[1].goals) = 2
    /\ \A i \in 1..3 : ValidSide(LandingEntries[i].homeTeamDefendingSide)
    /\ ~ValidSide(LandingEntries[4].homeTeamDefendingSide)

----------------------------------------------------------------------------
(* Properties of parse_goal_data (specification SpecParse)                 *)

\* an event parse_goal_data retains: a goal outside the shootout
IsGoalOutsideShootout(e) ==
    e.typeDescKey = "goal" /\ e.periodDescriptor.periodType # "SO"

\* an event with a side, details and an owner team
IsComplete(e) ==
    /\ ValidSide(e.homeTeamDefendingSide)
    /\ e.details # None
    /\ e.details[1].eventOwnerTeamId # None

\* a is b with some of its elements left out
RECURSIVE IsSubsequence(_, _)
IsSubsequence(a, b) ==
    IF a = <<>> THEN TRUE
    ELSE IF b = <<>> THEN FALSE
    ELSE IF Head(a) = Head(b) THEN IsSubsequence(Tail(a), Tail(b))
    ELSE IsSubsequence(a, Tail(b))

EventIds(events) == [i \in 1..Len(events) |-> events[i].eventId]

GoalIds(gs) == [i \in 1..Len(gs) |-> gs[i].event_id]

\* C17: the goals parse_goal_data returns come, in input order, from the
\* events of type "goal" whose period type is not "SO" only; events of another
\* type and shootout goals are never among them, and a complete goal of
\* regulation or overtime always is.
ParsedGoalsAreGoalsOutsideShootout ==
    pbp_out # None =>
        /\ IsSubsequence(GoalIds(pbp_out[1].goals),
                         EventIds(SelectSeq(pbp_resp[1].plays, IsGoalOutsideShootout)))
        /\ \A i \in 1..Len(pbp_resp[1].plays) :
              LET e == pbp_resp[1].plays[i]
              IN (e.typeDescKey = "goal"
                  /\ e.periodDescriptor.periodType \in {"REG", "OT"}
                  /\ IsComplete(e))
                 => \E j \in 1..Len(pbp_out[1].goals) :
                        pbp_out[1].goals[j].event_id = e.eventId

\* C17 witness: of a shootout goal, an overtime goal and a regulation goal the
\* last two came out, in that order.
ParsedOvertimeAndRegulationGoals ==
    /\ pbp_out # None
    /\ EventIds(pbp_resp[1].plays) = <<103, 102, 101>>
    /\ GoalIds(pbp_out[1].goals) = <<102, 101>>

\* the GoalDetails of a complete event
GoalDetailsOf(e) ==
    [event_id |-> e.eventId,
     ppt_replay_url |-> e.pptReplayUrl,
     scoring_team_id |-> e.details[1].eventOwnerTeamId[1],
     home_team_defending_side |->
         IF e.homeTeamDefendingSide = "left" THEN "Left" ELSE "Right"]

\* C18: of the goals outside the shootout, exactly those with an invalid side,
\* without details or without an owner team are left out; every other one is
\* returned whatever the events around it are, a goal without a replay URL
\* with its URL absent, and the call always returns.
OnlyIncompleteGoalsAreDropped ==
    pbp_out # None =>
        LET kept == SelectSeq(pbp_resp[1].plays,
                              LAMBDA e : IsGoalOutsideShootout(e) /\ IsComplete(e))
        IN pbp_out[1].goals = [i \in 1..Len(kept) |-> GoalDetailsOf(kept[i])]

\* C18 witness: between two complete goals a goal without an owner team was
\* dropped; the first of the two has no replay URL and came out without one.
GoalWithoutOwnerDroppedBetweenTwoGoals ==
    /\ pbp_out # None
    /\ EventIds(pbp_resp[1].plays) = <<102, 107, 101>>
    /\ GoalIds(pbp_out[1].goals) = <<102, 101>>
    /\ pbp_out[1].goals[1].ppt_replay_url = None

----------------------------------------------------------------------------
(* Both extractions on one game (specification SpecExport)                 *)

\* C19: when the landing response and the play-by-play response describe the
\* same game, and every goal outside the shootout has a valid side and a
\* known scoring team, extract_export_game_data and parse_goal_data return
\* the same home team id and goals with the same event ids, scoring team ids
\* and sides, in the same order.
BothShapesGiveTheSameGoals ==
    (/\ landing_out # None
     /\ pbp_out # None
     /\ \A i \in 1..Len(LandingEntries) :
            ValidSide(LandingEntries[i].homeTeamDefendingSide))
    => /\ landing_out[1].ok
       /\ landing_out[1].home_team_id = pbp_out[1].home_team_id
       /\ Len(landing_out[1].goals) = Len(pbp_out[1].goals)
       /\ \A i \in 1..Len(pbp_out[1].goals) :
             /\ landing_out[1].goals[i].event_id = pbp_out[1].goals[i].event_id
             /\ landing_out[1].goals[i].scoring_team_id
                   = pbp_out[1].goals[i].scoring_team_id
             /\ landing_out[1].goals[i].home_team_defending_side
                   = pbp_out[1].goals[i].home_team_defending_side

\* C19 witness: both extractions returned the home goal and the away goal of a
\* game with a regulation period and a shootout in which a goal was scored.
BothShapesGaveTwoGoals ==
    /\ landing_out # None
    /\ pbp_out # None
    /\ landing_out[1].ok
    /\ Len(pbp_out[1].goals) = 2
    /\ landing_out[1].goals[1].home_team_defending_side = "Left"
    /\ pbp_out[1].goals[2].home_team_defending_side = "Right"
    /\ pbp_out[1].goals[1].scoring_team_id # pbp_out[1].goals[2].scoring_team_id
    /\ \E i \in 1..Len(pbp_resp[1].plays) :
          /\ pbp_resp[1].plays[i].typeDescKey = "goal"
          /\ pbp_resp[1].plays[i].periodDescriptor.periodType = "SO"

----------------------------------------------------------------------------
(* The output folder of run_game (specification SpecGame)                  *)

\* the files a run that returned Ok may have written under folder: one per
\* goal, named by its event id, and pbp_boxscore.json
FilesOfRunUnder(folder) ==
    { Append(folder, NumberName(goals[i].event_id)) : i \in 1..Len(goals) }
    \cup { Append(folder, TextName("pbp_boxscore.json")) }

\* C20: after a run that returned Ok the folder of the game is
\* {base}/{gameDate of the game response}/{game id} with nothing in between,
\* every tracking file is {folder}/{event id} and the combined file is
\* {folder}/pbp_boxscore.json.
GameFolderIsDateThenGameId ==
    (g_pc = "returned" /\ g_result = "Ok") =>
        /\ Len(game_path) = 3
        /\ game_path[1] = FOLDER
        /\ game_path[2] = game_pbp[1].gameDate
        /\ game_path[3] = game[1].id
        /\ game_path \in dirs
        /\ DOMAIN files \subseteq FilesOfRunUnder(game_path)
        /\ Append(game_path, TextName("pbp_boxscore.json")) \in DOMAIN files

\* What run_game does instead: the folder is {base}/{season}/{date}/{game id},
\* the date being the start time of the schedule entry moved to the venue's
\* offset (the date of the start time as it is when the offset is no number),
\* and the files are where C20 says inside that folder.
GameFolderIsSeasonDateGameId ==
    (g_pc = "returned" /\ g_result = "Ok") =>
        /\ Len(game_path) = 4
        /\ game_path[1] = FOLDER
        /\ game_path[2] = game[1].season
        /\ LET game_date == parse_start_time(game[1].startTimeUTC)[1]
               adjusted == adjust_to_local_time(game_date, game[1].venueUTCOffset)
           IN game_path[3] = format_ymd(IF adjusted.tag = "Ok" THEN adjusted.date
                                        ELSE game_date.date)
        /\ game_path[4] = game[1].id
        /\ game_path \in dirs
        /\ DOMAIN files \subseteq FilesOfRunUnder(game_path)
        /\ Append(game_path, TextName("pbp_boxscore.json")) \in DOMAIN files

----------------------------------------------------------------------------
(* The requests for tracking data (specification SpecGame)                 *)

\* C22: the tracking data of every goal is requested from the goal's own
\* replay URL when it has one, and otherwise, and only then, from the URL
\* built from the season, the game id and the event id of the goal, in that
\* order.
TrackingRequestFollowsReplayUrl ==
    \A i \in 1..Len(saved) :
        requests[2 + i] =
            IF goals[i].ppt_replay_url # None
            THEN Request("pptReplayUrl", 0, 0, 0, goals[i].ppt_replay_url[1])
            ELSE Request("sprites", game[1].season, game[1].id, goals[i].event_id, "")

\* C22 witness: a goal with a replay URL and a goal without one were both
\* requested, the first from its URL and the second from the built URL.
BothKindsOfTrackingRequestSent ==
    /\ Len(saved) = 2
    /\ goals[1].ppt_replay_url # None
    /\ goals[2].ppt_replay_url = None
    /\ requests[3].endpoint = "pptReplayUrl"
    /\ requests[4].endpoint = "sprites"
    /\ requests[4].event_id = goals[2].event_id

----------------------------------------------------------------------------
(* The command line and the last dates (specification Spec)                *)

\* the command line is two date texts that name calendar days
TwoValidDates ==
    /\ Len(args) = 2
    /\ parse_from_str(args[1]) # None
    /\ parse_from_str(args[2]) # None

\* C23: reading the dates returns an error, and nothing is looked up, when a
\* date is no valid YYYY-MM-DD date, when fewer or more than two dates are
\* given, or when the end date comes before the start date.
BadDateRangeIsAnError ==
    (/\ pc # "start"
     /\ \/ ~TwoValidDates
        \/ parse_from_str(args[2])[1] < parse_from_str(args[1])[1])
    => /\ pc = "done"
       /\ result = "Err"
       /\ period = None
       /\ iterations = 0

\* The statement of C23 without the reversed ranges.
IllFormedDatesAreAnError ==
    (pc # "start" /\ ~TwoValidDates)
    => /\ pc = "done"
       /\ result = "Err"
       /\ period = None
       /\ iterations = 0

\* C24: when start_date + 6 days or start_date + 7 days is no representable
\* date the walk does not abort: the last window is queried up to end_date
\* and the walk ends normally.
WalkNearLastDateDoesNotAbort ==
    (/\ TwoValidDates
     /\ pc # "start"
     /\ start_date <= end_date
     /\ start_date + NUM_DAYS_IN_WK > NaiveDateMAX)
    => /\ result # "panic"
       /\ pc \in {"lookup", "games"} => period[1].end_date = end_date

----------------------------------------------------------------------------
(* The error message of try_new (specification SpecPeriod)                 *)

\* C25: when try_new refuses an end date that is not before the start date,
\* the number of days its error message states is the number of days of the
\* requested period, both ends counted.
RefusedPeriodStatesItsDays ==
    (wosp # None /\ ~wosp[1].ok /\ DateOf(wosp_end) >= DateOf(wosp_start)) =>
        wosp[1].days = Cardinality(DateOf(wosp_start)..DateOf(wosp_end))

\* C25 witness: a request for 8 days, from December 28 to January 4, was
\* refused with a message that states 8 days.
EightDayRequestStatesEightDays ==
    /\ wosp_start = <<2024, 12, 28>>
    /\ wosp_end = <<2025, 1, 4>>
    /\ wosp # None
    /\ ~wosp[1].ok
    /\ wosp[1].days = 8

----------------------------------------------------------------------------
(* The windows of a walk (specification Spec)                              *)

\* C27: the windows a walk queries partition the range of the command line.
\* The first window starts at the start date, every window lies within the
\* range, a window that is followed by another one is 7 days long and the
\* next one starts the day after it ends (so the windows are disjoint, leave
\* no date out and come in increasing order, and only the last can be
\* shorter), and when the walk has reached its end the last window ends at
\* the end date.
WindowsPartitionTheRange ==
    /\ [](/\ period # None =>
                /\ FirstStartDate <= period[1].start_date
                /\ period[1].start_date <= period[1].end_date
                /\ period[1].end_date <= LastDate
                /\ iterations = 0 => period[1].start_date = FirstStartDate
          /\ (pc = "done" /\ result = "Ok" /\ FirstStartDate <= LastDate) =>
                /\ period # None
                /\ period[1].end_date = LastDate)
    /\ [][(period # None /\ period' # period) =>
              /\ period' # None
              /\ period[1].end_date = period[1].start_date + 6
              /\ period'[1].start_date = period[1].end_date + 1]_vars

\* C27 witness: a walk of three windows has ended; its last window is shorter
\* than 7 days and ends at the end date.
WalkOfThreeWindowsEnded ==
    /\ pc = "done"
    /\ result = "Ok"
    /\ iterations = 3
    /\ period[1].start_date = FirstStartDate + 14
    /\ period[1].end_date = LastDate
    /\ period[1].end_date - period[1].start_date < 6

----------------------------------------------------------------------------
(* The shootout and the side test (specification SpecExport)               *)

\* the goal entries of the shootout periods of the landing response
ShootoutEntries ==
    LET scoring == landing_resp[1].summary.scoring
    IN { scoring[i].goals[j] :
             <<i, j>> \in { ij \in (1..Len(scoring)) \X (1..MaxGoalsPerPeriod) :
                               /\ scoring[ij[1]].periodDescriptor.periodType = "SO"
                               /\ ij[2] <= Len(scoring[ij[1]].goals) } }

\* C29: a goal entry of a shootout period never makes
\* extract_export_game_data fail, whatever its side is: when every entry
\* outside the shootout has a valid side the call succeeds, with as many goals
\* as there are entries outside the shootout.
ShootoutEntryNeverFailsExport ==
    (/\ landing_out # None
     /\ \A i \in 1..Len(LandingEntries) :
            ValidSide(LandingEntries[i].homeTeamDefendingSide))
    => /\ landing_out[1].ok
       /\ Len(landing_out[1].goals) = Len(LandingEntries)
       /\ \A i \in 1..Len(landing_out[1].goals) :
              landing_out[1].goals[i].home_team_defending_side \in {"Left", "Right"}

\* C29 witness: the call succeeded with one goal on a response whose shootout
\* has an entry with an invalid side.
ExportPassedOverInvalidShootoutEntry ==
    /\ landing_out # None
    /\ landing_out[1].ok
    /\ Len(landing_out[1].goals) = 1
    /\ \E g \in ShootoutEntries : ~ValidSide(g.homeTeamDefendingSide)

----------------------------------------------------------------------------
(* Properties of adjust_to_local_time (specification SpecAdjust)           *)

IsDigit(c) == DigitValue(c) >= 0

\* a text of the form "+hh:mm" or "-hh:mm"
IsOffsetText(o) ==
    /\ Len(o) = 6
    /\ o[1] \in {"+", "-"}
    /\ IsDigit(o[2]) /\ IsDigit(o[3])
    /\ o[4] = ":"
    /\ IsDigit(o[5]) /\ IsDigit(o[6])

\* the minutes of the text after the sign
OffsetMagnitude(o) ==
    (DigitValue(o[2]) * 10 + DigitValue(o[3])) * 60
    + DigitValue(o[5]) * 10 + DigitValue(o[6])

\* the minutes an offset text stands for: hours and minutes both carry the sign
OffsetMinutes(o) ==
    IF o[1] = "-" THEN 0 - OffsetMagnitude(o) ELSE OffsetMagnitude(o)

\* the calendar date at the venue of a start time given in UTC
LocalDate(time, o) ==
    LET utc == parse_start_time(time)[1]
    IN utc.date + ((utc.minute + OffsetMinutes(o)) \div 1440)

\* C26: adjust_to_local_time returns the calendar date of the start time
\* shifted by the offset "+hh:mm" or "-hh:mm" (the same day, the day before,
\* the day after, across a year end too), and an error result for an offset
\* text of another form.
AdjustedDateIsLocalDate ==
    adj_out # None =>
        IF IsOffsetText(adj_offset)
        THEN /\ adj_out[1].tag = "Ok"
             /\ adj_out[1].date = LocalDate(adj_time, adj_offset)
        ELSE adj_out[1].tag = "Err"

\* C28: for an offset "-hh:mm" with mm > 0 the start time is shifted by
\* -(hh*60 + mm) minutes, and the date returned is the date at the venue.
NegativeOffsetMinutesKeepTheSign ==
    (/\ adj_out # None
     /\ IsOffsetText(adj_offset)
     /\ adj_offset[1] = "-"
     /\ DigitValue(adj_offset[5]) * 10 + DigitValue(adj_offset[6]) > 0)
    => /\ adj_out[1].tag = "Ok"
       /\ adj_out[1].date = LocalDate(adj_time, adj_offset)

\* What adjust_to_local_time does: the date is the date at the venue for the
\* offsets "+hh:mm" and "-hh:00"; for "-hh:mm" the minutes are added, not
\* subtracted; a text too short to slice panics; the fourth character is not
\* looked at.
AdjustedDateAddsTheMinutes ==
    adj_out # None =>
        /\ (IsOffsetText(adj_offset)
            /\ (adj_offset[1] = "+" \/ (adj_offset[5] = "0" /\ adj_offset[6] = "0")))
           => adj_out[1] = [tag |-> "Ok", date |-> LocalDate(adj_time, adj_offset)]
        /\ (IsOffsetText(adj_offset) /\ adj_offset[1] = "-")
           => adj_out[1].date =
                  LET utc == parse_start_time(adj_time)[1]
                      hh == DigitValue(adj_offset[2]) * 10 + DigitValue(adj_offset[3])
                      mm == DigitValue(adj_offset[5]) * 10 + DigitValue(adj_offset[6])
                  IN utc.date + ((utc.minute - hh * 60 + mm) \div 1440)
        /\ Len(adj_offset) < 3 => adj_out[1].tag = "panic"

----------------------------------------------------------------------------
(* Properties of save_goal_data (specification SpecSave)                   *)

\* the output file of the call of the state
SaveOutputPath == OutputPathOf(save_in[1].goal)

\* C30: save_goal_data creates or changes the output file only when the
\* response has status 200: on a failure of send() or another status it
\* returns an error and every file is as it was, an output file of an earlier
\* run included.  With status 200, a body that could be read and a disk that
\* works, the body is what the output file holds afterwards and Ok is
\* returned, also for a body of fewer than 10 characters, for which a warning
\* is printed; no other file changes.
SaveChangesFilesOnlyOnStatus200 ==
    save_out # None =>
        /\ (save_in[1].reply.kind = "send_error" \/ save_in[1].reply.status # 200)
           => /\ ~save_out[1].ok
              /\ save_out[1].files = save_in[1].fs
        /\ (save_in[1].reply.kind = "body" /\ save_in[1].reply.status = 200
            /\ save_in[1].disk = "ok")
           => /\ save_out[1].ok
              /\ DOMAIN save_out[1].files = DOMAIN save_in[1].fs \cup {SaveOutputPath}
              /\ save_out[1].files[SaveOutputPath] = <<save_in[1].reply.text>>
              /\ \A q \in DOMAIN save_in[1].fs \ {SaveOutputPath} :
                     save_out[1].files[q] = save_in[1].fs[q]
              /\ save_out[1].warned <=> Len(save_in[1].reply.text) < 10

\* C30 witness: the request came back with status 404 and the output file of
\* an earlier run still holds what it held.
SaveFailedAndKeptEarlierFile ==
    /\ save_out # None
    /\ save_in[1].reply.status = 404
    /\ ~save_out[1].ok
    /\ SaveOutputPath \in DOMAIN save_in[1].fs
    /\ save_out[1].files[SaveOutputPath] = <<"{\"frames\":[9,9,9]}">>

----------------------------------------------------------------------------
(* run_game called twice for the same game                                 *)

\* C21: when run_game has been called a second time for the same game, the
\* disk and the upstream answering as they did the first time, it returns
\* what it returned the first time, the directories and the files are those
\* the first call left, file by file with the same content, and no file
\* holds more than the one text written to it
RerunLeavesTheSameFiles ==
    (once # None /\ g_pc = "returned") =>
        /\ g_result = once[1].result
        /\ dirs = once[1].dirs
        /\ DOMAIN files = DOMAIN once[1].files
        /\ \A q \in DOMAIN files :
             /\ files[q] = once[1].files[q]
             /\ Len(files[q]) <= 1

\* a second call has returned Ok over a game folder that the first call had
\* filled with a tracking file and pbp_boxscore.json
SecondRunRewroteItsFiles ==
    /\ once # None
    /\ g_pc = "returned"
    /\ g_result = "Ok"
    /\ game_path \in once[1].dirs
    /\ Append(game_path, TextName(PBP_BOXSCORE_FILENAME)) \in DOMAIN once[1].files
    /\ \E i \in 1..Len(goals) :
         /\ saved[i]
         /\ Append(game_path, NumberName(goals[i].event_id)) \in DOMAIN once[1].files
         /\ Len(files[Append(game_path, NumberName(goals[i].event_id))]) = 1

====
